---- MODULE Spec2Model ----
(***************************************************************************)
(* Model of bookstore_manager.py: a menu-driven sales ledger over a SQLite *)
(* store with three tables (member, book, sale).  The committed store is   *)
(* kept apart from the view of the open connection (tx), so that a write   *)
(* becomes visible in the store only at conn.commit().  Operator input is  *)
(* drawn from small sets of strings; strings that the code measures or     *)
(* parses (dates, numbers, selections) are sequences of characters.        *)
(***************************************************************************)
EXTENDS Integers, Sequences, FiniteSets, TLC

\* Largest sale id the model lets AUTOINCREMENT hand out (4 seed rows + new).
MaxSid == 5

(***************************************************************************)
(* Strings and int()                                                       *)
(***************************************************************************)
Digits == <<"0", "1", "2", "3", "4", "5", "6", "7", "8", "9">>

IsDigit(c) == \E i \in 1..10 : Digits[i] = c

DigitVal(c) == (CHOOSE i \in 1..10 : Digits[i] = c) - 1

\* str.count(ch) for a one-character needle
RECURSIVE count(_, _)
count(s, ch) ==
    IF s = <<>> THEN 0
    ELSE (IF Head(s) = ch THEN 1 ELSE 0) + count(Tail(s), ch)

\* str.strip() as int() applies it: leading and trailing blanks are dropped
RECURSIVE lstrip(_)
lstrip(s) == IF s # <<>> /\ Head(s) = " " THEN lstrip(Tail(s)) ELSE s

RECURSIVE rstrip(_)
rstrip(s) ==
    IF s # <<>> /\ s[Len(s)] = " " THEN rstrip(SubSeq(s, 1, Len(s) - 1)) ELSE s

RECURSIVE DigitsValue(_, _)
DigitsValue(s, acc) ==
    IF s = <<>> THEN acc
    ELSE IF Head(s) = "_" THEN DigitsValue(Tail(s), acc)
    ELSE DigitsValue(Tail(s), 10 * acc + DigitVal(Head(s)))

\* the digit part of an int() literal: digits, single underscores between them
WellFormedDigits(s) ==
    /\ s # <<>>
    /\ IsDigit(s[1]) /\ IsDigit(s[Len(s)])
    /\ \A i \in 1..Len(s) : IsDigit(s[i]) \/ s[i] = "_"
    /\ \A i \in 1..(Len(s) - 1) : ~(s[i] = "_" /\ s[i + 1] = "_")

\* int(s): [ok |-> FALSE] stands for ValueError
int(s) ==
    LET t == rstrip(lstrip(s))
        signed == t # <<>> /\ t[1] \in {"+", "-"}
        body == IF signed THEN Tail(t) ELSE t
    IN  IF WellFormedDigits(body)
        THEN [ok |-> TRUE,
              val |-> IF signed /\ t[1] = "-"
                      THEN 0 - DigitsValue(body, 0)
                      ELSE DigitsValue(body, 0)]
        ELSE [ok |-> FALSE, val |-> 0]

(***************************************************************************)
(* Operator input                                                          *)
(***************************************************************************)
MenuInputs == {"1", "2", "3", "4", "5", "", "9"}

DateOk == <<"2", "0", "2", "4", "-", "0", "2", "-", "0", "1">>
DateShifted == <<"2", "0", "2", "4", "-", "0", "-", "2", "0", "1">>
DateSlashes == <<"2", "0", "2", "4", "/", "0", "2", "/", "0", "1">>
DateShort == <<"2", "0", "2", "4", "-", "2", "-", "1">>
DateInputs == {DateOk, DateShifted, DateSlashes, DateShort, <<>>}

MemberInputs == {"M001", "M999", ""}
BookInputs == {"B001", "B002", "B999", ""}

QtyInputs == {<<"3", "0">>, <<"3", "1">>, <<"0">>, <<"a">>, <<>>}
DiscountInputs ==
    {<<"5", "0">>, <<"9", "9", "9", "9", "9">>, <<"-", "1">>, <<"a">>, <<>>}
NewDiscountInputs == {<<"5", "0">>, <<"-", "1">>, <<"a">>}
ChoiceInputs ==
    {<<>>, <<"0">>, <<"1">>, <<"2">>, <<"3">>, <<"4">>, <<"5">>, <<"6">>,
     <<"a">>}

(***************************************************************************)
(* The store                                                               *)
(***************************************************************************)
TableNames == {"member", "book", "sale"}

SeedMembers ==
    { [mid |-> "M001", mname |-> "Alice", mphone |-> "0912-345678",
       memail |-> "alice@example.com"],
      [mid |-> "M002", mname |-> "Bob", mphone |-> "0923-456789",
       memail |-> "bob@example.com"],
      [mid |-> "M003", mname |-> "Cathy", mphone |-> "0934-567890",
       memail |-> "cathy@example.com"] }

SeedBooks ==
    { [bid |-> "B001", btitle |-> "Python Programming", bprice |-> 600,
       bstock |-> 50],
      [bid |-> "B002", btitle |-> "Data Science Basics", bprice |-> 800,
       bstock |-> 30],
      [bid |-> "B003", btitle |-> "Machine Learning Guide", bprice |-> 1200,
       bstock |-> 20] }

SeedDate(d) == <<"2", "0", "2", "4", "-", "0", "1", "-", "1", d>>

\* the seed sale rows, in insertion order, without their generated ids
SeedSales ==
    << [sdate |-> SeedDate("5"), mid |-> "M001", bid |-> "B001", sqty |-> 2,
        sdiscount |-> 100, stotal |-> 1100],
       [sdate |-> SeedDate("6"), mid |-> "M002", bid |-> "B002", sqty |-> 1,
        sdiscount |-> 50, stotal |-> 750],
       [sdate |-> SeedDate("7"), mid |-> "M001", bid |-> "B003", sqty |-> 3,
        sdiscount |-> 200, stotal |-> 3400],
       [sdate |-> SeedDate("8"), mid |-> "M003", bid |-> "B001", sqty |-> 1,
        sdiscount |-> 0, stotal |-> 600] >>

\* a database image: the tables that exist, their rows, and the
\* AUTOINCREMENT counter of sale (sqlite_sequence)
EmptyDb == [tables |-> {}, member |-> {}, book |-> {}, sale |-> {}, seq |-> 0]

Max(a, b) == IF a >= b THEN a ELSE b

RECURSIVE MaxSidOf(_)
MaxSidOf(rows) ==
    IF rows = {} THEN 0
    ELSE LET r == CHOOSE x \in rows : TRUE
         IN  Max(r.sid, MaxSidOf(rows \ {r}))

\* the INSERT on a table without AUTOINCREMENT: the id is one more than the
\* largest id now in the table, so the id of a deleted last row comes back
InsertSaleRowid(d, r) ==
    LET newsid == MaxSidOf(d.sale) + 1
    IN  [d EXCEPT !.sale = d.sale \cup
                      {[sid |-> newsid, sdate |-> r.sdate, mid |-> r.mid,
                        bid |-> r.bid, sqty |-> r.sqty,
                        sdiscount |-> r.sdiscount, stotal |-> r.stotal]},
                  !.seq = newsid]

\* INSERT INTO sale (sdate, mid, bid, sqty, sdiscount, stotal) VALUES (...):
\* sid INTEGER PRIMARY KEY AUTOINCREMENT is one more than the largest id
\* ever handed out
InsertSale(d, r) ==
    LET newsid == Max(d.seq, MaxSidOf(d.sale)) + 1
    IN  [d EXCEPT !.sale = d.sale \cup
                      {[sid |-> newsid, sdate |-> r.sdate, mid |-> r.mid,
                        bid |-> r.bid, sqty |-> r.sqty,
                        sdiscount |-> r.sdiscount, stotal |-> r.stotal]},
                  !.seq = newsid]

RECURSIVE InsertSales(_, _)
InsertSales(d, rs) ==
    IF rs = <<>> THEN d ELSE InsertSales(InsertSale(d, Head(rs)), Tail(rs))

\* table_exists(conn, table_name)
table_exists(d, table_name) == table_name \in d.tables

\* rows of sale JOIN member ON sale.mid = member.mid, as (sid, sdate, mname)
SaleMemberJoin(d) ==
    { [sid |-> s.sid, sdate |-> s.sdate, mname |-> m.mname] :
        <<s, m>> \in {p \in d.sale \X d.member : p[1].mid = p[2].mid} }

\* ORDER BY sid
RECURSIVE OrderBySid(_)
OrderBySid(rows) ==
    IF rows = {} THEN <<>>
    ELSE LET r == CHOOSE x \in rows : \A y \in rows : x.sid <= y.sid
         IN  <<r>> \o OrderBySid(rows \ {r})

\* the listing with ORDER BY sale.sid DESC
SalesListingNewestFirst(d) ==
    LET asc == OrderBySid(SaleMemberJoin(d))
    IN  [i \in 1..Len(asc) |-> asc[Len(asc) + 1 - i]]

\* the listing that update_sales_record and delete_sales_record fetch
SalesListing(d) == OrderBySid(SaleMemberJoin(d))

\* the rows that show_sales_report fetches
ReportJoin(d) ==
    { [sid |-> t[1].sid, sdate |-> t[1].sdate, mname |-> t[2].mname,
       btitle |-> t[3].btitle, bprice |-> t[3].bprice, sqty |-> t[1].sqty,
       sdiscount |-> t[1].sdiscount, stotal |-> t[1].stotal,
       subtotal |-> t[3].bprice * t[1].sqty - t[1].sdiscount] :
        t \in {p \in d.sale \X d.member \X d.book :
                  p[1].mid = p[2].mid /\ p[1].bid = p[3].bid} }

ReportRows(d) == OrderBySid(ReportJoin(d))

(***************************************************************************)
(* State                                                                   *)
(***************************************************************************)
VARIABLES
    db,     \* the committed content of bookstore.db
    tx,     \* the open connection's view of it (uncommitted writes included)
    pc,     \* where the process is: the prompt it waits at, or the statement
    local,  \* the local variables of the running operation
    out     \* the notice printed by the last step

vars == <<db, tx, pc, local, out>>

NoLocals ==
    [sales_date |-> <<>>, member_id |-> "", book_id |-> "", stock |-> 0,
     price |-> 0, qty |-> 0, discount |-> 0, total |-> 0, sales |-> <<>>,
     sale_index |-> 0, choice |-> 0, sid |-> 0, bprice |-> 0, sqty |-> 0,
     old_discount |-> 0, new_discount |-> 0, new_stotal |-> 0]

Init ==
    /\ db = EmptyDb
    /\ tx = EmptyDb
    /\ pc = "init_db"
    /\ local = NoLocals
    /\ out = ""


\* `with sqlite3.connect(...) as conn` leaving normally: conn.commit()
Committed(t) == t

\* an exception leaves the `with` block: conn.rollback(), and nothing in
\* main() catches it, so the interpreter prints the traceback and ends
Uncaught(exception) ==
    /\ pc' = "crashed"
    /\ out' = exception
    /\ tx' = EmptyDb
    /\ local' = NoLocals
    /\ UNCHANGED db

(***************************************************************************)
(* init_db                                                                 *)
(***************************************************************************)
\* CREATE TABLE IF NOT EXISTS for the three tables; executescript commits
CreateTables(d) == [d EXCEPT !.tables = d.tables \cup TableNames]

\* a row whose primary key is already in the table: IntegrityError
KeyClash(d) ==
    \/ \E r \in SeedMembers : \E m \in d.member : m.mid = r.mid
    \/ \E r \in SeedBooks : \E b \in d.book : b.bid = r.bid

\* the three executemany calls
InsertSeed(d) ==
    InsertSales([d EXCEPT !.member = d.member \cup SeedMembers,
                          !.book = d.book \cup SeedBooks],
                SeedSales)

init_db ==
    /\ pc = "init_db"
    /\ IF table_exists(db, "member") /\ table_exists(db, "book")
          /\ table_exists(db, "sale")
       THEN /\ out' = "tables_exist"
            /\ pc' = "menu"
            /\ UNCHANGED <<db, tx, local>>
       ELSE /\ db' = CreateTables(db)
            /\ tx' = CreateTables(db)
            /\ pc' = "seed"
            /\ out' = "creating_tables"
            /\ UNCHANGED local

init_db_seed ==
    /\ pc = "seed"
    /\ IF KeyClash(tx)
       THEN Uncaught("IntegrityError")
       ELSE /\ tx' = InsertSeed(tx)
            /\ pc' = "commit_seed"
            /\ UNCHANGED <<db, local, out>>

init_db_commit ==
    /\ pc = "commit_seed"
    /\ db' = Committed(tx)
    /\ tx' = EmptyDb
    /\ pc' = "menu"
    /\ out' = "tables_created"
    /\ UNCHANGED local

(***************************************************************************)
(* sales_record                                                            *)
(***************************************************************************)
\* the notice printed and only the failed field asked again
RepromptSameField(notice) ==
    /\ out' = notice
    /\ UNCHANGED <<db, tx, pc, local>>

\* `continue`: back to the first prompt of the loop; the values read so far
\* are overwritten before they are read again
Reprompt(notice) ==
    /\ pc' = "sales_date"
    /\ out' = notice
    /\ local' = NoLocals
    /\ UNCHANGED <<db, tx>>

DateAccepted(sales_date) ==
    ~(Len(sales_date) # 10 \/ count(sales_date, "-") # 2)

input_sales_date ==
    /\ pc = "sales_date"
    /\ \E sales_date \in DateInputs :
         IF ~DateAccepted(sales_date)
         THEN Reprompt("bad_date")
         ELSE /\ local' = [NoLocals EXCEPT !.sales_date = sales_date]
              /\ pc' = "member_id"
              /\ out' = ""
              /\ UNCHANGED <<db, tx>>

input_member_id ==
    /\ pc = "member_id"
    /\ \E member_id \in MemberInputs :
         /\ local' = [local EXCEPT !.member_id = member_id]
         /\ pc' = "book_id"
         /\ UNCHANGED <<db, tx, out>>

\* the member lookup left out
MemberNotLooked(d, member_id) == TRUE

\* SELECT 1 FROM member WHERE mid = ?
MemberKnown(d, member_id) == \E m \in d.member : m.mid = member_id

\* SELECT bstock, bprice FROM book WHERE bid = ?  (the set is empty for None)
BookData(d, book_id) == {b \in d.book : b.bid = book_id}

input_book_id ==
    /\ pc = "book_id"
    /\ \E book_id \in BookInputs :
         IF ~MemberKnown(tx, local.member_id)
         THEN Reprompt("bad_member")
         ELSE IF BookData(tx, book_id) = {}
         THEN Reprompt("bad_book")
         ELSE LET book_data == CHOOSE b \in BookData(tx, book_id) : TRUE
              IN  /\ local' = [local EXCEPT !.book_id = book_id,
                                            !.stock = book_data.bstock,
                                            !.price = book_data.bprice]
                  /\ pc' = "qty"
                  /\ UNCHANGED <<db, tx, out>>

QtyAccepted(v) == v.ok /\ ~(v.val <= 0)

input_qty ==
    /\ pc = "qty"
    /\ \E s \in QtyInputs :
         LET qty == int(s)
         IN  IF ~QtyAccepted(qty)
             THEN Reprompt("bad_qty")
             ELSE /\ local' = [local EXCEPT !.qty = qty.val]
                  /\ pc' = "discount"
                  /\ UNCHANGED <<db, tx, out>>

DiscountAccepted(v) == v.ok /\ ~(v.val < 0)

\* the comparison off by one: one copy more than the stock is let through
StockShortOffByOne(qty, stock) == qty > stock + 1

\* the comparison with its operands exchanged
StockShortSwapped(qty, stock) == stock > qty

StockShort(qty, stock) == qty > stock

\* a total that is not allowed to go below zero
SaleTotalFloored(price, qty, discount) == Max(price * qty - discount, 0)

SaleTotal(price, qty, discount) == price * qty - discount

input_discount ==
    /\ pc = "discount"
    /\ \E s \in DiscountInputs :
         LET discount == int(s)
         IN  IF ~DiscountAccepted(discount)
             THEN Reprompt("bad_discount")
             ELSE IF StockShort(local.qty, local.stock)
             THEN Reprompt("no_stock")
             ELSE /\ local' = [local EXCEPT
                                 !.discount = discount.val,
                                 !.total = SaleTotal(local.price, local.qty,
                                                     discount.val)]
                  /\ pc' = "insert_sale"
                  /\ UNCHANGED <<db, tx, out>>

\* the INSERT on a connection that commits every statement at once
sales_record_insert_autocommit ==
    /\ pc = "insert_sale"
    /\ tx' = InsertSale(tx, [sdate |-> local.sales_date,
                            mid |-> local.member_id, bid |-> local.book_id,
                            sqty |-> local.qty, sdiscount |-> local.discount,
                            stotal |-> local.total])
    /\ db' = tx'
    /\ pc' = "update_stock"
    /\ UNCHANGED <<local, out>>

sales_record_insert ==
    /\ pc = "insert_sale"
    /\ tx' = InsertSale(tx, [sdate |-> local.sales_date,
                            mid |-> local.member_id, bid |-> local.book_id,
                            sqty |-> local.qty, sdiscount |-> local.discount,
                            stotal |-> local.total])
    /\ pc' = "update_stock"
    /\ UNCHANGED <<db, local, out>>

\* UPDATE book SET bstock = bstock - ? WHERE bid = ?
DecrementStock(d, qty, book_id) ==
    [d EXCEPT !.book =
        { IF b.bid = book_id THEN [b EXCEPT !.bstock = b.bstock - qty] ELSE b :
            b \in d.book }]

sales_record_update_stock ==
    /\ pc = "update_stock"
    /\ tx' = DecrementStock(tx, local.qty, local.book_id)
    /\ pc' = "commit_sale"
    /\ UNCHANGED <<db, local, out>>

sales_record_commit ==
    /\ pc = "commit_sale"
    /\ db' = Committed(tx)
    /\ tx' = EmptyDb
    /\ pc' = "menu"
    /\ out' = "sale_added"
    /\ local' = NoLocals

(***************************************************************************)
(* show_sales_report                                                       *)
(***************************************************************************)
show_sales_report ==
    /\ out' = IF ReportRows(db) = <<>> THEN "no_sales" ELSE "report"
    /\ UNCHANGED <<db, tx, pc, local>>

(***************************************************************************)
(* update_sales_record                                                     *)
(***************************************************************************)
\* an invalid answer ends the operation: back to the main menu
AskAgainAborts(notice) ==
    /\ out' = notice
    /\ pc' = "menu"
    /\ tx' = EmptyDb
    /\ local' = NoLocals
    /\ UNCHANGED db

\* `continue` (or the except branch) in the loop around one prompt: the
\* notice is printed and the same prompt comes again
AskAgain(notice) ==
    /\ out' = notice
    /\ UNCHANGED <<db, tx, pc, local>>

\* conn.close() inside the `with` block, then return: the block's exit calls
\* conn.commit() on the closed connection, which raises ProgrammingError
CloseAndReturn == Uncaught("ProgrammingError")

update_sales_record ==
    LET sales == SalesListing(db)
    IN  IF sales = <<>>
        THEN /\ out' = "no_sales"
             /\ UNCHANGED <<db, tx, pc, local>>
        ELSE /\ local' = [NoLocals EXCEPT !.sales = sales]
             /\ tx' = db
             /\ pc' = "update_choice"
             /\ out' = "listing"
             /\ UNCHANGED db

\* 0 <= index < len(sales), for a 0-based index
IndexInRange(sale_index, sales) ==
    ~(sale_index < 0 \/ sale_index >= Len(sales))

\* the unit price taken from the row's stored total, that is the price in
\* force when the total was last written, instead of from the book
SaleBookDataFrozen(d, sid) ==
    { [bprice |-> (p[1].stotal + p[1].sdiscount) \div p[1].sqty,
       sqty |-> p[1].sqty, sdiscount |-> p[1].sdiscount] :
        p \in {q \in d.sale \X d.book : q[1].bid = q[2].bid /\ q[1].sid = sid} }

\* SELECT bprice, sqty, sdiscount FROM sale JOIN book ON sale.bid = book.bid
\* WHERE sale.sid = ?
SaleBookData(d, sid) ==
    { [bprice |-> p[2].bprice, sqty |-> p[1].sqty,
       sdiscount |-> p[1].sdiscount] :
        p \in {q \in d.sale \X d.book : q[1].bid = q[2].bid /\ q[1].sid = sid} }

input_update_choice ==
    /\ pc = "update_choice"
    /\ \E choice \in ChoiceInputs :
         IF choice = <<>>
         THEN CloseAndReturn
         ELSE IF ~int(choice).ok
         THEN AskAgain("not_a_number")
         ELSE LET sale_index == int(choice).val - 1
              IN  IF ~IndexInRange(sale_index, local.sales)
                  THEN AskAgain("bad_choice")
                  ELSE LET sid == local.sales[sale_index + 1].sid
                       IN  IF SaleBookData(tx, sid) = {}
                           THEN CloseAndReturn
                           ELSE LET book_data ==
                                      CHOOSE r \in SaleBookData(tx, sid) : TRUE
                                IN  /\ local' =
                                         [local EXCEPT
                                            !.sale_index = sale_index,
                                            !.sid = sid,
                                            !.bprice = book_data.bprice,
                                            !.sqty = book_data.sqty,
                                            !.old_discount =
                                                book_data.sdiscount]
                                    /\ pc' = "new_discount"
                                    /\ out' = "old_discount"
                                    /\ UNCHANGED <<db, tx>>

\* the discount added instead of taken off
NewTotalDiscountAdded(bprice, sqty, new_discount) ==
    bprice * sqty + new_discount

NewTotal(bprice, sqty, new_discount) == bprice * sqty - new_discount

\* the update done as a fresh sale: the quantity is taken off the stock again
UpdateSaleResold(d, new_discount, new_stotal, sid) ==
    [d EXCEPT
       !.sale =
         { IF s.sid = sid
           THEN [s EXCEPT !.sdiscount = new_discount, !.stotal = new_stotal]
           ELSE s : s \in d.sale },
       !.book =
         { IF \E s \in d.sale : s.sid = sid /\ s.bid = b.bid
           THEN [b EXCEPT !.bstock =
                   b.bstock - (CHOOSE s \in d.sale : s.sid = sid).sqty]
           ELSE b : b \in d.book }]

\* the UPDATE without its WHERE clause
UpdateSaleEveryRow(d, new_discount, new_stotal, sid) ==
    [d EXCEPT !.sale =
        { [s EXCEPT !.sdiscount = new_discount, !.stotal = new_stotal] :
            s \in d.sale }]

\* UPDATE sale SET sdiscount = ?, stotal = ? WHERE sid = ?
UpdateSale(d, new_discount, new_stotal, sid) ==
    [d EXCEPT !.sale =
        { IF s.sid = sid
          THEN [s EXCEPT !.sdiscount = new_discount, !.stotal = new_stotal]
          ELSE s : s \in d.sale }]

input_new_discount ==
    /\ pc = "new_discount"
    /\ \E s \in NewDiscountInputs :
         LET new_discount == int(s)
         IN  IF ~new_discount.ok
             THEN AskAgain("bad_new_discount")
             ELSE IF new_discount.val < 0
             THEN AskAgain("negative_discount")
             ELSE LET new_stotal ==
                        NewTotal(local.bprice, local.sqty, new_discount.val)
                  IN  /\ local' = [local EXCEPT
                                     !.new_discount = new_discount.val,
                                     !.new_stotal = new_stotal]
                      /\ tx' = UpdateSale(tx, new_discount.val, new_stotal,
                                          local.sid)
                      /\ pc' = "commit_update"
                      /\ out' = ""
                      /\ UNCHANGED db

update_sales_record_commit ==
    /\ pc = "commit_update"
    /\ db' = Committed(tx)
    /\ tx' = EmptyDb
    /\ pc' = "menu"
    /\ out' = "sale_updated"
    /\ local' = NoLocals

(***************************************************************************)
(* delete_sales_record                                                     *)
(***************************************************************************)
delete_sales_record ==
    LET sales == SalesListing(db)
    IN  IF sales = <<>>
        THEN /\ out' = "no_sales"
             /\ UNCHANGED <<db, tx, pc, local>>
        ELSE /\ local' = [NoLocals EXCEPT !.sales = sales]
             /\ tx' = db
             /\ pc' = "delete_choice"
             /\ out' = "listing"
             /\ UNCHANGED db

\* the lower limit of the test one too low: 0 passes, and sales[0 - 1] is
\* the last row of the listing
ChoiceInRangeFromZero(choice, sales) == ~(choice < 0 \/ choice > Len(sales))

\* 1 <= choice <= len(sales), for a 1-based choice
ChoiceInRange(choice, sales) == ~(choice < 1 \/ choice > Len(sales))

\* seq[i] of a Python list: 0-based, a negative index counts from the end
PyIndex(seq, i) == IF i < 0 THEN seq[Len(seq) + i + 1] ELSE seq[i + 1]

\* the choice used as an index without the shift to the listing's base
SelectedNext(sales, choice) == PyIndex(sales, choice % Len(sales)).sid

\* sales[choice - 1][0]: the sale id at the chosen 1-based position
SelectedSid(sales, choice) == PyIndex(sales, choice - 1).sid

\* the delete that also gives the quantity back to the book
DeleteSaleRestocking(d, sid_to_delete) ==
    [d EXCEPT
       !.sale = {s \in d.sale : s.sid # sid_to_delete},
       !.book =
         { IF \E s \in d.sale : s.sid = sid_to_delete /\ s.bid = b.bid
           THEN [b EXCEPT !.bstock =
                   b.bstock
                   + (CHOOSE s \in d.sale : s.sid = sid_to_delete).sqty]
           ELSE b : b \in d.book }]

\* DELETE FROM sale WHERE sid = ?
DeleteSale(d, sid_to_delete) ==
    [d EXCEPT !.sale = {s \in d.sale : s.sid # sid_to_delete}]

input_delete_choice ==
    /\ pc = "delete_choice"
    /\ \E choice \in ChoiceInputs :
         IF choice = <<>>
         THEN CloseAndReturn
         ELSE IF ~int(choice).ok
         THEN AskAgain("not_a_number")
         ELSE IF ~ChoiceInRange(int(choice).val, local.sales)
         THEN AskAgain("bad_choice")
         ELSE LET sid_to_delete == SelectedSid(local.sales, int(choice).val)
              IN  /\ tx' = DeleteSale(tx, sid_to_delete)
                  /\ local' = [local EXCEPT !.choice = int(choice).val,
                                            !.sid = sid_to_delete]
                  /\ pc' = "commit_delete"
                  /\ out' = ""
                  /\ UNCHANGED db

delete_sales_record_commit ==
    /\ pc = "commit_delete"
    /\ db' = Committed(tx)
    /\ tx' = EmptyDb
    /\ pc' = "menu"
    /\ out' = "sale_deleted"
    /\ local' = NoLocals

(***************************************************************************)
(* main                                                                    *)
(***************************************************************************)
\* entering sales_record: the connection is opened and the loop starts (the
\* cap on the ids is needed only while a sale can still be committed)
sales_record ==
    /\ db.seq < MaxSid \/ \A b \in db.book : b.bstock = 0
    /\ tx' = db
    /\ pc' = "sales_date"
    /\ local' = NoLocals
    /\ out' = ""
    /\ UNCHANGED db

main_exit ==
    /\ pc' = "exited"
    /\ out' = "bye"
    /\ UNCHANGED <<db, tx, local>>

main_invalid ==
    /\ out' = "bad_option"
    /\ UNCHANGED <<db, tx, pc, local>>

main ==
    /\ pc = "menu"
    /\ \E choice \in MenuInputs :
         \/ choice = "1" /\ sales_record
         \/ choice = "2" /\ show_sales_report
         \/ choice = "3" /\ update_sales_record
         \/ choice = "4" /\ delete_sales_record
         \/ (choice = "5" \/ choice = "") /\ main_exit
         \/ choice \notin {"1", "2", "3", "4", "5", ""} /\ main_invalid

\* the operator starts the program again on the same bookstore.db
Restart ==
    /\ pc \in {"exited", "crashed"}
    /\ pc' = "init_db"
    /\ tx' = EmptyDb
    /\ local' = NoLocals
    /\ out' = ""
    /\ UNCHANGED db

Next ==
    \/ init_db
    \/ init_db_seed
    \/ init_db_commit
    \/ main
    \/ input_sales_date
    \/ input_member_id
    \/ input_book_id
    \/ input_qty
    \/ input_discount
    \/ sales_record_insert
    \/ sales_record_update_stock
    \/ sales_record_commit
    \/ input_update_choice
    \/ input_new_discount
    \/ update_sales_record_commit
    \/ input_delete_choice
    \/ delete_sales_record_commit
    \/ Restart

Spec == Init /\ [][Next]_vars

(***************************************************************************)
(* The store edited from outside                                           *)
(***************************************************************************)
PriceEdits == {[bid |-> "B003", bprice |-> 1300]}

\* bookstore.db is an ordinary file: while the program waits at the menu
\* (no connection open) another tool rewrites a book's bprice in it
StoragePriceWrite ==
    /\ pc = "menu"
    /\ \E e \in PriceEdits :
         /\ \E b \in db.book : b.bid = e.bid /\ b.bprice # e.bprice
         /\ db' = [db EXCEPT !.book =
                     { IF b.bid = e.bid THEN [b EXCEPT !.bprice = e.bprice]
                       ELSE b : b \in db.book }]
    /\ UNCHANGED <<tx, pc, local, out>>

NextStorage == Next \/ StoragePriceWrite

SpecStorage == Init /\ [][NextStorage]_vars

(***************************************************************************)
(* The program started on a bookstore.db that is already there             *)
(***************************************************************************)
\* the file after a run that was killed inside executescript, between the
\* CREATE TABLE statements: one table, no rows
MemberTableOnly == [EmptyDb EXCEPT !.tables = {"member"}]

\* a seeded file from which the sale table has been dropped
SaleTableDropped ==
    [EmptyDb EXCEPT !.tables = {"member", "book"}, !.member = SeedMembers,
                    !.book = SeedBooks]

\* a seeded file after earlier runs have sold every copy of the three books
\* (three sales) and deleted all seven sale rows
SoldOut ==
    [tables |-> TableNames, member |-> SeedMembers,
     book |-> {[b EXCEPT !.bstock = 0] : b \in SeedBooks}, sale |-> {},
     seq |-> Len(SeedSales) + Cardinality(SeedBooks)]

StartImages == {EmptyDb, MemberTableOnly, SaleTableDropped, SoldOut}

InitStartup ==
    /\ db \in StartImages
    /\ tx = EmptyDb
    /\ pc = "init_db"
    /\ local = NoLocals
    /\ out = ""

SpecStartup == InitStartup /\ [][Next]_vars

(***************************************************************************)
(* The process killed                                                      *)
(***************************************************************************)
\* the process is killed (or the machine stops) at any point: the open
\* transaction is never committed and SQLite rolls it back from its journal;
\* the frame of the interrupted operation is left as it was
Kill ==
    /\ pc \notin {"exited", "crashed", "killed"}
    /\ pc' = "killed"
    /\ tx' = EmptyDb
    /\ out' = "killed"
    /\ UNCHANGED <<db, local>>

RestartAfterKill ==
    /\ pc = "killed"
    /\ pc' = "init_db"
    /\ tx' = EmptyDb
    /\ local' = NoLocals
    /\ out' = ""
    /\ UNCHANGED db

NextCrash == Next \/ Kill \/ RestartAfterKill

SpecCrash == Init /\ [][NextCrash]_vars

(***************************************************************************)
(* Properties                                                              *)
(***************************************************************************)
Bids(d) == {b.bid : b \in d.book}
Mids(d) == {m.mid : m \in d.member}
StockOf(d, bid) == (CHOOSE b \in d.book : b.bid = bid).bstock
PriceOf(d, bid) == (CHOOSE b \in d.book : b.bid = bid).bprice
OtherBooks(d, bid) == {b \in d.book : b.bid # bid}
SaleWithSid(d, sid) == CHOOSE s \in d.sale : s.sid = sid
Sids(d) == {s.sid : s \in d.sale}

\* the step that commits a CreateSale
CreateCommits == pc = "commit_sale" /\ pc' = "menu"

\* C1: a CreateSale that passes every validation commits a store in which
\* the chosen book's stock is its stock before minus the quantity, every
\* other book row is as before, and exactly one Sale row is new, carrying
\* the inputs and total = price * quantity - discount (negative when the
\* discount is larger).
C1_CreateSalePost ==
    [][CreateCommits =>
        /\ StockOf(db', local.book_id) = StockOf(db, local.book_id) - local.qty
        /\ PriceOf(db', local.book_id) = PriceOf(db, local.book_id)
        /\ OtherBooks(db', local.book_id) = OtherBooks(db, local.book_id)
        /\ \E s \in db'.sale :
             /\ s.sid \notin Sids(db)
             /\ db'.sale = db.sale \cup {s}
             /\ s.sdate = local.sales_date /\ s.mid = local.member_id
             /\ s.bid = local.book_id /\ s.sqty = local.qty
             /\ s.sdiscount = local.discount
             /\ s.stotal =
                  PriceOf(db, local.book_id) * local.qty - local.discount
        /\ db'.member = db.member]_vars

\* a sale of 30 copies of B001 at a discount of 99999 has been committed:
\* the stock went from 50 to 20 and the total is below zero
C1_Witness ==
    /\ pc = "menu" /\ out = "sale_added"
    /\ StockOf(db, "B001") = 20
    /\ \E s \in db.sale :
         /\ s.sid = 5 /\ s.bid = "B001" /\ s.sqty = 30
         /\ s.sdiscount = 99999 /\ s.stotal = 600 * 30 - 99999

\* the step taken at the discount prompt, the last input of CreateSale
AtDiscountPrompt == pc = "discount"

\* C2: a CreateSale whose quantity exceeds the book's current stock is
\* rejected: with a well-formed discount the notice is the insufficient
\* stock one (a malformed discount is reported first); either way nothing
\* is written, and the flow never reaches the INSERT with such a quantity.
C2_InsufficientStock ==
    [][(AtDiscountPrompt /\ local.qty > StockOf(db, local.book_id)) =>
        /\ pc' = "sales_date"
        /\ out' \in {"no_stock", "bad_discount"}
        /\ db' = db /\ tx' = tx]_vars

\* 31 copies of B002 (stock 30) were asked for and refused
C2_Witness ==
    /\ pc = "sales_date" /\ out = "no_stock"
    /\ StockOf(db, "B002") = 30
    /\ Cardinality(db.sale) = 4

\* C3: a CreateSale whose member id or book id is unknown is rejected with
\* the invalid reference notice and the Member, Book and Sale tables are as
\* before; the flow goes on to the quantity only with both ids known.
C3_InvalidReference ==
    [][pc = "book_id" =>
        /\ local.member_id \notin Mids(db) =>
             pc' = "sales_date" /\ out' = "bad_member"
        /\ \/ /\ pc' = "qty"
              /\ local'.member_id \in Mids(db)
              /\ local'.book_id \in Bids(db)
           \/ /\ pc' = "sales_date"
              /\ out' \in {"bad_member", "bad_book"}
        /\ db' = db /\ tx' = tx]_vars

\* an unknown member id has just been refused on the seeded store
C3_Witness ==
    /\ pc = "sales_date" /\ out = "bad_member"
    /\ Cardinality(db.sale) = 4 /\ db.member = SeedMembers

\* C4: every book's stock is a non-negative integer, in the committed store
\* and in the view of the open connection.
C4_StockNonNegative ==
    /\ \A b \in db.book : b.bstock \in Nat
    /\ \A b \in tx.book : b.bstock \in Nat

\* the whole stock of B002 has been sold
C4_Witness ==
    /\ pc = "menu" /\ out = "sale_added"
    /\ StockOf(db, "B002") = 0

\* the step that commits an UpdateSale, and the one that commits a DeleteSale
UpdateCommits == pc = "commit_update" /\ pc' = "menu"
DeleteCommits == pc = "commit_delete" /\ pc' = "menu"

\* C5: an UpdateSale with a new discount >= 0 stores that discount and
\* total = (the price of the sale's book in the store at the time of the
\* update) * (the sale's quantity) - new discount, also when that price is
\* no longer the one the sale was created at.
C5_UpdateUsesCurrentPrice ==
    [][UpdateCommits =>
        LET before == SaleWithSid(db, local.sid)
            after == SaleWithSid(db', local.sid)
        IN  /\ local.new_discount >= 0
            /\ after.sdiscount = local.new_discount
            /\ after.stotal =
                 PriceOf(db, before.bid) * before.sqty - local.new_discount]_vars

\* seed sale 3 (3 copies of B003, sold at 1200) was updated after the price
\* of B003 had been rewritten to 1300: its total is 1300 * 3 - 50
C5_Witness ==
    /\ pc = "menu" /\ out = "sale_updated"
    /\ PriceOf(db, "B003") = 1300
    /\ \E s \in db.sale :
         s.sid = 3 /\ s.sqty = 3 /\ s.sdiscount = 50 /\ s.stotal = 3850

\* C6: UpdateSale leaves the selected row's id, date, member, book and
\* quantity, every other Sale row and the number of Sale rows as they were.
C6_UpdateFrame ==
    [][UpdateCommits =>
        /\ local.sid \in Sids(db)
        /\ Sids(db') = Sids(db)
        /\ Cardinality(db'.sale) = Cardinality(db.sale)
        /\ \A s \in db.sale : s.sid # local.sid => s \in db'.sale
        /\ LET before == SaleWithSid(db, local.sid)
               after == SaleWithSid(db', local.sid)
           IN  /\ after.sdate = before.sdate /\ after.mid = before.mid
               /\ after.bid = before.bid /\ after.sqty = before.sqty]_vars

\* seed sale 1 carries a new discount and total, next to three untouched rows
C6_Witness ==
    /\ pc = "menu" /\ out = "sale_updated"
    /\ Cardinality(db.sale) = 4
    /\ \E s \in db.sale :
         /\ s.sid = 1 /\ s.sdate = SeedDate("5") /\ s.mid = "M001"
         /\ s.bid = "B001" /\ s.sqty = 2
         /\ s.sdiscount = 50 /\ s.stotal = 1150

\* C7: DeleteSale with a selection in 1..length of the listing removes the
\* Sale row shown at that position and no other, and the listing is shorter
\* by exactly one.
C7_DeleteExactlyOne ==
    [][DeleteCommits =>
        LET listing == SalesListing(db)
        IN  /\ local.choice \in 1..Len(listing)
            /\ db'.sale =
                 {s \in db.sale : s.sid # listing[local.choice].sid}
            /\ Cardinality(db'.sale) = Cardinality(db.sale) - 1
            /\ Len(SalesListing(db')) = Len(listing) - 1]_vars

\* the second of the four seed rows has been deleted
C7_Witness ==
    /\ pc = "menu" /\ out = "sale_deleted"
    /\ Sids(db) = {1, 3, 4}

\* C8: only the commit of a CreateSale (and the seeding of an empty store)
\* changes the book table: the report, UpdateSale and DeleteSale leave every
\* book's stock and price as they were.
C8_OnlyCreateWritesStock ==
    [][pc \notin {"commit_sale", "commit_seed"} => db'.book = db.book]_vars

\* a sale of 30 copies of B001 was created and then deleted: the row is gone
\* and the stock is still 20
C8_Witness ==
    /\ pc = "menu" /\ out = "sale_deleted"
    /\ db.seq = 5 /\ 5 \notin Sids(db)
    /\ StockOf(db, "B001") = 20

\* C9 as claimed: stock is given back by deletion, so that once every sale
\* made by CreateSale has been deleted again (the seed rows all being there)
\* the books have their seeded stock.
C9_StockRestoredByDelete ==
    (pc = "menu" /\ db.seq > Len(SeedSales) /\ Sids(db) = 1..Len(SeedSales))
        => db.book = SeedBooks

\* C9: stock is decremented by the creation of a sale and is not given back
\* by its deletion: CreateSale takes the quantity off the book's stock and
\* DeleteSale leaves the stock of the deleted row's book as it is, so after
\* the two the stock is its value before the creation minus the quantity.
C9_StockNotRestoredByDelete ==
    [][/\ CreateCommits =>
            StockOf(db', local.book_id)
                = StockOf(db, local.book_id) - local.qty
       /\ DeleteCommits =>
            LET deleted == SaleWithSid(db, local.sid)
            IN  /\ deleted \notin db'.sale
                /\ StockOf(db', deleted.bid) = StockOf(db, deleted.bid)]_vars

\* the sale of the whole stock of B002 was created and deleted: only the
\* seed rows are left and the stock of B002 is 0, not 30
C9_Witness ==
    /\ pc = "menu" /\ out = "sale_deleted"
    /\ db.seq = 5 /\ Sids(db) = 1..4
    /\ StockOf(db, "B002") = 0

\* C10: the process ends only by the operator's choice of 5 or the empty
\* string at the main menu; no flow ends it with an error.
C10_EndsOnlyByChoice ==
    pc \in {"exited", "crashed"} => (pc = "exited" /\ out = "bye")

\* the rows of the second store that are not, by their id, in the first
NewSales(d, e) == {s \in e.sale : s.sid \notin Sids(d)}

\* C11: the committed store changes only at a commit, and a commit of
\* CreateSale, UpdateSale or DeleteSale publishes the whole operation: a new
\* Sale row appears together with the decrement of its book's stock by its
\* quantity, and never one without the other; a kill at any point leaves
\* the committed store as it was.
C11_OneTransaction ==
    [][/\ pc' = "killed" => db' = db
       /\ db' # db =>
            pc \in {"init_db", "commit_seed", "commit_sale", "commit_update",
                    "commit_delete"}
       /\ pc \notin {"init_db", "commit_seed"} =>
            /\ NewSales(db, db') # {} <=> db'.book # db.book
            /\ \A s \in NewSales(db, db') :
                 /\ StockOf(db', s.bid) = StockOf(db, s.bid) - s.sqty
                 /\ OtherBooks(db', s.bid) = OtherBooks(db, s.bid)
                 /\ NewSales(db, db') = {s}]_vars

\* the process was killed between the INSERT of a sale of 30 copies of B002
\* and its commit: the store holds neither the row nor the decrement
C11_Witness ==
    /\ pc = "killed"
    /\ local.book_id = "B002" /\ local.qty = 30 /\ local.total = 800 * 30 - 50
    /\ db.seq = 4 /\ Sids(db) = 1..4
    /\ StockOf(db, "B002") = 30

\* C12: schema initialization is idempotent and complete: it never ends in
\* an error; whenever it has run with a table missing, all three tables are
\* there and hold the seed set (3 members, 3 books, the 4 seed sales); and a
\* further run finds the tables and changes nothing.
C12_BootstrapCompletes ==
    /\ ~(pc = "crashed" /\ out = "IntegrityError")
    /\ pc = "menu" => db.tables = TableNames
    /\ (pc = "menu" /\ out = "tables_created") =>
         /\ SeedMembers \subseteq db.member
         /\ SeedBooks \subseteq db.book
         /\ Cardinality(db.sale) = Len(SeedSales)

CreatePrompts == {"sales_date", "member_id", "book_id", "qty", "discount"}

\* some operator input passes every validation of sales_record on store d
SomeSalePasses(d) ==
    \E sales_date \in DateInputs, m \in d.member, b \in d.book :
      \E qty \in 1..b.bstock :
        /\ DateAccepted(sales_date)
        /\ MemberKnown(d, m.mid)
        /\ BookData(d, b.bid) # {}
        /\ QtyAccepted([ok |-> TRUE, val |-> qty])
        /\ ~StockShort(qty, b.bstock)

\* C20: the input loop of CreateSale can be left from every state in which
\* the operator is in it: there is input that passes validation (the flow
\* takes the empty string as one more invalid value, not as a cancel).
C20_CreateLoopCanBeLeft ==
    pc \in CreatePrompts => SomeSalePasses(db)

\* the positions of the separator in a date string
Dashes(d) == {i \in 1..Len(d) : d[i] = "-"}

\* C13: a date gets past the first prompt of CreateSale only if it is 10
\* characters long with exactly two '-', the 5th and the 8th character.
C13_DateSeparatorsInPlace ==
    pc \in {"member_id", "book_id", "qty", "discount", "insert_sale",
            "update_stock", "commit_sale"}
        => Len(local.sales_date) = 10 /\ Dashes(local.sales_date) = {5, 8}

\* C14: a sale id is never handed out twice: every id in the table is at
\* most the AUTOINCREMENT counter, the counter never goes down, a row that
\* appears has an id above the counter (so above every id ever assigned,
\* deleted ones included), and UpdateSale leaves the set of ids as it is.
C14_SaleIdLifecycle ==
    [][/\ \A n \in Sids(db) : n <= db.seq
       /\ db'.seq >= db.seq
       /\ \A n \in Sids(db') \ Sids(db) : n > db.seq
       /\ UpdateCommits => Sids(db') = Sids(db)]_vars

\* seed row 4, the last one, was deleted and a sale was created afterwards:
\* it got id 5, not 4
C14_Witness ==
    /\ pc = "menu" /\ out = "sale_added"
    /\ Sids(db) = {1, 2, 3, 5}

\* C15: no error path of UpdateSale or DeleteSale writes: a step at the
\* selection prompt or the new-discount prompt leaves the committed store
\* alone, goes on only with a selection inside the listing or a discount
\* >= 0, and otherwise leaves the connection without a pending write; an
\* empty listing leaves everything as it is.
C15_ErrorPathsWriteNothing ==
    [][/\ pc \in {"update_choice", "delete_choice", "new_discount"} =>
            db' = db
       /\ pc = "update_choice" =>
            \/ /\ pc' = "new_discount" /\ tx' = tx
               /\ local'.sale_index \in 0..(Len(local.sales) - 1)
            \/ /\ pc' = pc /\ tx' = tx
               /\ out' \in {"not_a_number", "bad_choice"}
            \/ pc' = "crashed" /\ out' = "ProgrammingError"
       /\ pc = "delete_choice" =>
            \/ /\ pc' = "commit_delete"
               /\ local'.choice \in 1..Len(local.sales)
            \/ /\ pc' = pc /\ tx' = tx
               /\ out' \in {"not_a_number", "bad_choice"}
            \/ pc' = "crashed" /\ out' = "ProgrammingError"
       /\ pc = "new_discount" =>
            \/ pc' = "commit_update" /\ local'.new_discount >= 0
            \/ /\ pc' = pc /\ tx' = tx
               /\ out' \in {"bad_new_discount", "negative_discount"}
       /\ (pc = "menu" /\ out' = "no_sales") =>
            db' = db /\ pc' = "menu"]_vars

\* a negative new discount for seed sale 1 has just been refused: the row
\* and the connection's view of it are as seeded
C15_Witness ==
    /\ pc = "new_discount" /\ out = "negative_discount"
    /\ local.sid = 1
    /\ tx = db
    /\ \E s \in db.sale : s.sid = 1 /\ s.sdiscount = 100 /\ s.stotal = 1100

\* C16: the selection menu of UpdateSale and DeleteSale and the report list
\* the same sale ids, each present id once, in strictly ascending order:
\* position i holds the i-th smallest id of the Sale table.
C16_MenuMatchesReport ==
    pc \in {"update_choice", "delete_choice"} =>
        LET shown == local.sales
            report == ReportRows(db)
        IN  /\ Len(shown) = Cardinality(Sids(db))
            /\ Len(report) = Len(shown)
            /\ \A i \in 1..Len(shown) :
                 /\ shown[i].sid = report[i].sid
                 /\ shown[i].sid \in Sids(db)
                 /\ Cardinality({n \in Sids(db) : n <= shown[i].sid}) = i

\* the delete menu is shown for a table with the ids 1, 3 and 5
C16_Witness ==
    /\ pc = "delete_choice"
    /\ Sids(db) = {1, 3, 5}
    /\ Len(local.sales) = 3 /\ local.sales[2].sid = 3

\* C17 as claimed: an out-of-range selection ends the operation and the
\* program is back at the main menu.
C17_InvalidSelectionAborts ==
    out = "bad_choice" => pc = "menu"

\* C17: an out-of-range selection in UpdateSale or DeleteSale is answered
\* with a notice and the same prompt: the operation goes on with the same
\* listing, and nothing is written.
C17_InvalidSelectionAsksAgain ==
    [][(pc \in {"update_choice", "delete_choice"} /\ out' = "bad_choice") =>
        pc' = pc /\ local' = local /\ db' = db /\ tx' = tx]_vars

\* an out-of-range selection was made in UpdateSale and the prompt is there
\* again, with the four seed rows listed
C17_Witness ==
    /\ pc = "update_choice" /\ out = "bad_choice"
    /\ Len(local.sales) = 4

CreateErrors ==
    {"bad_date", "bad_member", "bad_book", "bad_qty", "bad_discount",
     "no_stock"}

C19_TotalsMatchPrice ==
    /\ \A s \in db.sale :
         /\ s.bid \in Bids(db)
         /\ s.stotal = PriceOf(db, s.bid) * s.sqty - s.sdiscount
    /\ LET report == ReportRows(db)
       IN  /\ Len(report) = Cardinality(db.sale)
           /\ \A i \in 1..Len(report) : report[i].subtotal = report[i].stotal

\* the report was printed for a table in which seed sale 1 has been updated
\* and a sale with a total below zero has been created
C19_Witness ==
    /\ pc = "menu" /\ out = "report"
    /\ \E s \in db.sale : s.sid = 1 /\ s.sdiscount = 50 /\ s.stotal = 1150
    /\ \E s \in db.sale : s.sid = 5 /\ s.stotal < 0

====
